---- MODULE Spec2Model ----
(***************************************************************************)
(* NeuroArc frontend: the App component (frontend/src/App.jsx) with its    *)
(* children JobSearch and CVAnalysis, as a state machine.  One action per  *)
(* event handler, timer callback and promise continuation.  The backend    *)
(* is not part of the sources: its responses are inputs of the             *)
(* continuations, drawn from the small sets defined below.                 *)
(* The Reviews page has a specification of its own, ReviewSpec.            *)
(*                                                                         *)
(* Texts on which the code performs string operations (includes, endsWith, *)
(* split, trim, toLowerCase, parseInt) are sequences of one-character      *)
(* strings; opaque values (job ids, step names) are TLA+ strings.          *)
(***************************************************************************)
EXTENDS Integers, Sequences, FiniteSets, TLC

----------------------------------------------------------------------------
(* Bounds of the model *)

MaxSearches == 2   \* job search requests issued in one behaviour
MaxRuns == 2       \* analysis runs (handleAnalysis calls) in one behaviour
MaxGens == 1       \* CV generation requests in one behaviour
MaxResets == 1     \* handleReset calls in one behaviour (searchKey counter)
MaxPosts == 2      \* review submissions in one behaviour of the Reviews page

----------------------------------------------------------------------------
(* JavaScript string operations, on sequences of characters *)

Upper == <<"A","B","C","D","E","F","G","H","I","J","K","L","M",
           "N","O","P","Q","R","S","T","U","V","W","X","Y","Z">>
Lower == <<"a","b","c","d","e","f","g","h","i","j","k","l","m",
           "n","o","p","q","r","s","t","u","v","w","x","y","z">>
Digits == <<"0","1","2","3","4","5","6","7","8","9">>

IsSpace(c) == c \in {" ", "\t", "\n"}

IsDigit(c) == \E i \in 1..10 : Digits[i] = c

DigitVal(c) == (CHOOSE i \in 1..10 : Digits[i] = c) - 1

\* String.prototype.toLowerCase, one character
LowerChar(c) ==
    IF \E i \in 1..26 : Upper[i] = c
    THEN Lower[CHOOSE i \in 1..26 : Upper[i] = c]
    ELSE c

\* String.prototype.toLowerCase
ToLowerCase(s) == [i \in 1..Len(s) |-> LowerChar(s[i])]

\* String.prototype.includes
Includes(s, sub) ==
    \E i \in 0..(Len(s) - Len(sub)) : SubSeq(s, i + 1, i + Len(sub)) = sub

\* String.prototype.endsWith
EndsWith(s, suf) ==
    /\ Len(suf) <= Len(s)
    /\ SubSeq(s, Len(s) - Len(suf) + 1, Len(s)) = suf

RECURSIVE TrimStart(_)
TrimStart(s) ==
    IF s # <<>> /\ IsSpace(Head(s)) THEN TrimStart(Tail(s)) ELSE s

RECURSIVE TrimEnd(_)
TrimEnd(s) ==
    IF s # <<>> /\ IsSpace(s[Len(s)])
    THEN TrimEnd(SubSeq(s, 1, Len(s) - 1))
    ELSE s

\* String.prototype.trim
Trim(s) == TrimEnd(TrimStart(s))

\* String.prototype.split(','): the pieces between the commas, at least one
RECURSIVE SplitFrom(_, _, _)
SplitFrom(s, i, cur) ==
    IF i > Len(s) THEN <<cur>>
    ELSE IF s[i] = "," THEN <<cur>> \o SplitFrom(s, i + 1, <<>>)
    ELSE SplitFrom(s, i + 1, Append(cur, s[i]))

SplitComma(s) == SplitFrom(s, 1, <<>>)

\* the value of a run of decimal digits
RECURSIVE DigitsValue(_, _)
DigitsValue(s, acc) ==
    IF s = <<>> \/ ~IsDigit(Head(s)) THEN acc
    ELSE DigitsValue(Tail(s), 10 * acc + DigitVal(Head(s)))

NaN == "NaN"

\* parseInt(s, 10): leading white space is skipped, then an optional sign,
\* then the longest run of digits; NaN when there is no digit
ParseInt(s) ==
    LET t == TrimStart(s)
        neg == t # <<>> /\ Head(t) = "-"
        u == IF t # <<>> /\ Head(t) \in {"-", "+"} THEN Tail(t) ELSE t
    IN IF u = <<>> \/ ~IsDigit(Head(u)) THEN NaN
       ELSE IF neg THEN 0 - DigitsValue(u, 0) ELSE DigitsValue(u, 0)

Range(seq) == {seq[i] : i \in 1..Len(seq)}

\* str(n) of a natural number, as the backend writes a number into a header
RECURSIVE NatToStr(_)
NatToStr(n) ==
    IF n < 10 THEN <<Digits[n + 1]>>
    ELSE Append(NatToStr(n \div 10), Digits[(n % 10) + 1])

\* Array.prototype.join(', ') as the backend builds the X-Skills-Added header
RECURSIVE JoinComma(_)
JoinComma(list) ==
    IF list = <<>> THEN <<>>
    ELSE IF Len(list) = 1 THEN list[1]
    ELSE list[1] \o <<",", " ">> \o JoinComma(Tail(list))

\* the subsequences of a list (a choice of some of its elements, in order)
RECURSIVE SubLists(_)
SubLists(list) ==
    IF list = <<>> THEN {<<>>}
    ELSE LET rest == SubLists(Tail(list))
         IN rest \cup {<<Head(list)>> \o r : r \in rest}

----------------------------------------------------------------------------
(* Texts of the program *)

BuyMeACoffee == <<"b","u","y","m","e","a","c","o","f","f","e","e">>
MsgSearchFailed == <<"F","a","i","l","e","d"," ","t","o"," ","s","e","a","r","c","h"," ","j","o","b","s">>
MsgUploadFailed == <<"F","a","i","l","e","d"," ","t","o"," ","u","p","l","o","a","d"," ","C","V">>
MsgAnalysisFailed == <<"A","n","a","l","y","s","i","s"," ","f","a","i","l","e","d">>
MsgGenerateFailed == <<"F","a","i","l","e","d"," ","t","o"," ","g","e","n","e","r","a","t","e"," ","P","D","F">>
MsgBadFormat == <<"P","l","e","a","s","e"," ","u","p","l","o","a","d"," ","a"," ","P","D","F"," ","o","r"," ","D","O","C","X"," ","f","i","l","e",".">>
MsgRetry == <<"A","n","a","l","y","s","i","s"," ","f","a","i","l","e","d","."," ","P","l","e","a","s","e"," ","t","r","y"," ","a","g","a","i","n",".">>
MsgServerBusy == <<"S","e","r","v","e","r"," ","i","s"," ","b","u","s","y"," ","d","u","e"," ","t","o"," ","h","i","g","h"," ","d","e","m","a","n","d","."," ","P","l","e","a","s","e"," ","h","e","l","p"," ","k","e","e","p"," ","t","h","e"," ","s","e","r","v","e","r","s"," ","r","u","n","n","i","n","g">>
ExtPdf == <<".","p","d","f">>
ExtDocx == <<".","d","o","c","x">>
MimePdf == <<"a","p","p","l","i","c","a","t","i","o","n","/","p","d","f">>
MsgSubmitFailed == <<"F","a","i","l","e","d"," ","t","o"," ","s","u","b","m","i","t"," ","r","e","v","i","e","w">>

----------------------------------------------------------------------------
(* Values *)

Null == <<"null">>            \* null of a text-valued state (error)
NullRec == [null |-> TRUE]    \* null of an object-valued state
NoJob == "null"               \* null of selectedJob
Undefined == [undefined |-> TRUE]   \* a field that was never set

\* a job record, identified by its id; title, company and description
\* travel with it
Jobs == {"J1", "J2"}

\* the job list the backend answers a search with
JobsFor(args) == IF args.query = "" THEN <<"J1", "J2">> ELSE <<"J2">>

\* the arguments of onSearch: query, location, country, filters
DefaultInputs == [query |-> "", location |-> "", country |-> "gb",
                  fullTime |-> FALSE]
SearchInputs == {DefaultInputs,
                 [query |-> "dev", location |-> "", country |-> "gb",
                  fullTime |-> TRUE]}

\* options of the posted-date dropdown of JobList (two of the five)
PostedFilters == {"all", "week"}

\* files the user can drop or choose
FilePdf == [name |-> <<"c","v",".","p","d","f">>, type |-> MimePdf]
FileDocx == [name |-> <<"c","v",".","d","o","c","x">>, type |-> <<>>]
FileTxt == [name |-> <<"n","o","t","e","s",".","t","x","t">>, type |-> <<"t","e","x","t","/","p","l","a","i","n">>]
Files == {FilePdf, FileDocx, FileTxt}

\* error details a failing request can carry (FastAPI's {"detail": ...})
DetailEmpty == <<>>
DetailRate == <<"R","a","t","e"," ","l","i","m","i","t">>
DetailBusy == <<"S","e","e"," ","b","u","y","m","e","a","c","o","f","f","e","e",".","c","o","m">>
Details == {DetailEmpty, DetailRate, DetailBusy}

\* skills
Python == <<"P","y","t","h","o","n">>
PythonLc == <<"p","y","t","h","o","n">>
Go == <<"G","o">>
Sql == <<"S","Q","L">>

MaxScore == 100

\* the stars of the review form ([1, 2, 3, 4, 5]), and the initial rating
MaxStars == 5
InitialRating == 5

\* the analyses the backend can answer an analyze request with
AnalysisStrong ==
    [score |-> 45, matching_skills |-> <<Go>>,
     missing_skills |-> <<Python, Sql>>, domain_match |-> "strong_match",
     summary |-> [text |-> "server"]]
AnalysisMismatch ==
    [score |-> 10, matching_skills |-> <<>>,
     missing_skills |-> <<PythonLc, Go>>,
     domain_match |-> "complete_mismatch", summary |-> [text |-> "server"]]
Analyses == {AnalysisStrong, AnalysisMismatch}

\* the scores the backend can report after an optimization
NewScores == {0, MaxScore}

----------------------------------------------------------------------------
(* State *)

VARIABLES
    \* App (useState)
    currentStep, jobs, selectedJob, cvData, analysisResult, generatedDocs,
    loading, loadingType, error, searchKey, postedFilter, hasSearched,
    \* JobSearch (useState, and the debounce timer of its effect: the
    \* arguments of its onSearch call and, as history, what set it)
    inputs, timer,
    \* CVAnalysis (useState)
    file, analyzing, result, cvError, dismissedError,
    \* requests in flight, and the number of requests issued so far
    searches, runs, gens, nSearch, nRuns, nGens,
    \* history: the server detail the current error texts were made from;
    \* the ok generation response handled by the last step, if any
    errorDetail, cvErrorDetail, lastGen,
    \* Reviews (useState), and its submit requests in flight
    reviews, reviewsLoading, submitting, reviewError, name, rating, comment,
    showForm, posts, nPosts

appVars == <<currentStep, jobs, selectedJob, cvData, analysisResult,
             generatedDocs, loading, loadingType, error, searchKey, postedFilter,
             hasSearched>>
searchVars == <<inputs, timer>>
cvVars == <<file, analyzing, result, cvError, dismissedError, cvErrorDetail>>
netVars == <<searches, runs, gens, nSearch, nRuns, nGens>>
progVars == <<appVars, searchVars, cvVars, netVars, errorDetail>>
reviewVars == <<reviews, reviewsLoading, submitting, reviewError, name,
                rating, comment, showForm, posts, nPosts>>
vars == <<progVars, lastGen, reviewVars>>

NoTimer == [null |-> TRUE]
NoDocs == [cv |-> NullRec, coverLetter |-> NullRec, isPdf |-> Undefined,
           textContent |-> Undefined]

\* App.jsx renders CVAnalysis for currentStep 'analysis' and a selected job
CvMounted(step, job) == step = "analysis" /\ job # NoJob

\* App.jsx renders JobSearch for currentStep 'search'
SearchMounted(step) == step = "search"

\* the three views of CVAnalysis
ResultView == CvMounted(currentStep, selectedJob) /\ result # NullRec
AnalyzingView ==
    CvMounted(currentStep, selectedJob) /\ result = NullRec /\ analyzing
UploadView ==
    CvMounted(currentStep, selectedJob) /\ result = NullRec /\ ~analyzing

\* DetailOr dropping the detail of the server
DetailIgnored(detail, fallback) == fallback

\* err.detail || fallback
DetailOr(detail, fallback) == IF detail # <<>> THEN detail ELSE fallback

\* the text of an alert for a message
Render(msg) == IF Includes(msg, BuyMeACoffee) THEN MsgServerBusy ELSE msg

\* the alert of App
AppAlertShown ==
    /\ currentStep \notin {"about", "reviews", "analysis"}
    /\ error # Null

\* displayError of CVAnalysis
DisplayError ==
    IF dismissedError THEN Null
    ELSE IF cvError # Null THEN cvError ELSE error

\* the alert of CVAnalysis, in the result view and in the upload view
CvAlertShown == (ResultView \/ UploadView) /\ DisplayError # Null

\* the condition of handleDrop for starting an analysis
IsPdfOrDocx(f) ==
    \/ f.type = MimePdf
    \/ EndsWith(f.name, ExtPdf)
    \/ EndsWith(f.name, ExtDocx)

----------------------------------------------------------------------------
(* Mounting and unmounting of the children, after a change of the step, of *)
(* the selected job or of the key of JobSearch                             *)

CvFresh ==
    /\ file' = NullRec
    /\ analyzing' = FALSE
    /\ result' = NullRec
    /\ cvError' = Null
    /\ dismissedError' = FALSE
    /\ cvErrorDetail' = Null

\* a run whose CVAnalysis was unmounted: its setState calls have no effect
Detach(r) == [r EXCEPT !.live = FALSE]

\* why JobSearch is mounted anew (history): its key changed (handleReset),
\* or the app comes back to the search step from the current step
MountOrigin(key) == IF key # searchKey THEN "reset" ELSE currentStep

Navigate(step, job, key) ==
    /\ currentStep' = step
    /\ selectedJob' = job
    /\ searchKey' = key
    /\ IF CvMounted(step, job) /\ CvMounted(currentStep, selectedJob)
       THEN UNCHANGED cvVars /\ runs' = runs
       ELSE CvFresh /\ runs' = {Detach(r) : r \in runs}
    /\ IF SearchMounted(step)
       THEN IF SearchMounted(currentStep) /\ key = searchKey
            THEN UNCHANGED searchVars
            ELSE /\ inputs' = DefaultInputs
                 /\ timer' = [args |-> DefaultInputs,
                              origin |-> MountOrigin(key)]
       ELSE inputs' = DefaultInputs /\ timer' = NoTimer

\* Reviews: the initial values of its useState calls
ReviewsFresh ==
    /\ reviews = <<>>
    /\ reviewsLoading = TRUE
    /\ submitting = FALSE
    /\ reviewError = Null
    /\ name = <<>>
    /\ rating = InitialRating
    /\ comment = <<>>
    /\ showForm = FALSE
    /\ posts = {}
    /\ nPosts = 0

----------------------------------------------------------------------------
(* Initial state: App is mounted on the search step, its mount effect has  *)
(* called handleJobSearch('', '', 'gb') and JobSearch has set its timer    *)

Init ==
    /\ currentStep = "search"
    /\ jobs = <<>>
    /\ selectedJob = NoJob
    /\ cvData = NullRec
    /\ analysisResult = NullRec
    /\ generatedDocs = NoDocs
    /\ loading = TRUE
    /\ loadingType = "cv"
    /\ error = Null
    /\ searchKey = 0
    /\ postedFilter = "all"
    /\ hasSearched = TRUE
    /\ inputs = DefaultInputs
    /\ timer = [args |-> DefaultInputs, origin |-> "mount"]
    /\ file = NullRec
    /\ analyzing = FALSE
    /\ result = NullRec
    /\ cvError = Null
    /\ dismissedError = FALSE
    /\ searches = {[id |-> 1, args |-> DefaultInputs]}
    /\ runs = {}
    /\ gens = {}
    /\ nSearch = 1
    /\ nRuns = 0
    /\ nGens = 0
    /\ errorDetail = Null
    /\ cvErrorDetail = Null
    /\ lastGen = NullRec
    /\ ReviewsFresh

----------------------------------------------------------------------------
(* Job search *)

\* ChangeInput without the cleanup of the effect and without a new timer
ChangeInputKeepingTimer(v) ==
    /\ SearchMounted(currentStep)
    /\ v # inputs
    /\ inputs' = v
    /\ timer' = timer
    /\ UNCHANGED <<appVars, cvVars, netVars, errorDetail>>
    /\ lastGen' = NullRec
    /\ UNCHANGED reviewVars

\* JobSearch: an input changes; the effect clears the timer and sets a new one
ChangeInput(v) ==
    /\ SearchMounted(currentStep)
    /\ v # inputs
    /\ inputs' = v
    /\ timer' = [args |-> v, origin |-> "input"]
    /\ UNCHANGED <<appVars, cvVars, netVars, errorDetail>>
    /\ lastGen' = NullRec
    /\ UNCHANGED reviewVars

\* App.handleJobSearch up to its fetch
handleJobSearch(args) ==
    /\ nSearch < MaxSearches
    /\ loading' = TRUE
    /\ error' = Null
    /\ errorDetail' = Null
    /\ hasSearched' = TRUE
    /\ jobs' = <<>>
    /\ nSearch' = nSearch + 1
    /\ searches' = searches \cup {[id |-> nSearch + 1, args |-> args]}

\* JobSearch: the debounce timer fires and calls onSearch
TimerFire ==
    /\ timer # NoTimer
    /\ handleJobSearch(timer.args)
    /\ timer' = NoTimer
    /\ UNCHANGED <<postedFilter, currentStep, selectedJob, cvData, analysisResult,
                   generatedDocs, loadingType, searchKey, inputs, cvVars,
                   runs, gens, nRuns, nGens>>
    /\ lastGen' = NullRec
    /\ UNCHANGED reviewVars

\* handleJobSearch after its fetch: the response is ok
SearchOk(s) ==
    /\ s \in searches
    /\ searches' = searches \ {s}
    /\ jobs' = JobsFor(s.args)
    /\ loading' = FALSE
    /\ UNCHANGED <<postedFilter, currentStep, selectedJob, cvData, analysisResult,
                   generatedDocs, loadingType, error, searchKey, hasSearched,
                   searchVars, cvVars, runs, gens, nSearch, nRuns, nGens, errorDetail>>
    /\ lastGen' = NullRec
    /\ UNCHANGED reviewVars

\* handleJobSearch after its fetch: the response is not ok
SearchFail(s, detail) ==
    /\ s \in searches
    /\ searches' = searches \ {s}
    /\ error' = DetailOr(detail, MsgSearchFailed)
    /\ errorDetail' = detail
    /\ loading' = FALSE
    /\ UNCHANGED <<postedFilter, currentStep, jobs, selectedJob, cvData, analysisResult,
                   generatedDocs, loadingType, searchKey, hasSearched,
                   searchVars, cvVars, runs, gens, nSearch, nRuns, nGens>>
    /\ lastGen' = NullRec
    /\ UNCHANGED reviewVars

\* JobList: the user chooses an option of the posted-date dropdown
SelectPostedFilter(v) ==
    /\ currentStep = "search"
    /\ ~loading
    /\ v # postedFilter
    /\ postedFilter' = v
    /\ UNCHANGED <<currentStep, jobs, selectedJob, cvData, analysisResult,
                   generatedDocs, loading, loadingType, error, searchKey,
                   hasSearched, searchVars, cvVars, netVars, errorDetail>>
    /\ lastGen' = NullRec
    /\ UNCHANGED reviewVars

\* JobList: the user clicks a job of the list (App.handleSelectJob)
handleSelectJob(job) ==
    /\ currentStep = "search"
    /\ ~loading
    /\ job \in Range(jobs)
    /\ Navigate("analysis", job, searchKey)
    /\ UNCHANGED <<postedFilter, jobs, cvData, analysisResult, generatedDocs, loading,
                   loadingType, error, hasSearched, searches, gens, nSearch,
                   nRuns, nGens, errorDetail>>
    /\ lastGen' = NullRec
    /\ UNCHANGED reviewVars

----------------------------------------------------------------------------
(* Navigation *)

\* footer link 'About Us' (the footer is hidden on the preview step)
GoAbout ==
    /\ currentStep \in {"search", "analysis"}
    /\ Navigate("about", selectedJob, searchKey)
    /\ UNCHANGED <<postedFilter, jobs, cvData, analysisResult, generatedDocs, loading,
                   loadingType, error, hasSearched, searches, gens, nSearch,
                   nRuns, nGens, errorDetail>>
    /\ lastGen' = NullRec
    /\ UNCHANGED reviewVars

\* footer link 'Reviews', and the link of the About page
GoReviews ==
    /\ currentStep \in {"search", "analysis", "about"}
    /\ Navigate("reviews", selectedJob, searchKey)
    /\ UNCHANGED <<postedFilter, jobs, cvData, analysisResult, generatedDocs, loading,
                   loadingType, error, hasSearched, searches, gens, nSearch,
                   nRuns, nGens, errorDetail>>
    /\ lastGen' = NullRec
    /\ UNCHANGED reviewVars

\* handleBackToSearch clearing the job list as handleReset does
handleBackToSearchClearingJobs ==
    /\ \/ UploadView
       \/ ResultView
       \/ currentStep = "preview" /\ ~loading
       \/ currentStep \in {"about", "reviews"}
    /\ cvData' = NullRec
    /\ jobs' = <<>>
    /\ analysisResult' = NullRec
    /\ Navigate("search", NoJob, searchKey)
    /\ UNCHANGED <<postedFilter, generatedDocs, loading, loadingType, error,
                   hasSearched, searches, gens, nSearch, nRuns, nGens, errorDetail>>
    /\ lastGen' = NullRec
    /\ UNCHANGED reviewVars

\* App.handleBackToSearch: onBack of CVAnalysis (Back, Back to Search, Find
\* a Better Match), of DocumentPreview, of AboutUs and of ReviewsPage
handleBackToSearch ==
    /\ \/ UploadView
       \/ ResultView
       \/ currentStep = "preview" /\ ~loading
       \/ currentStep \in {"about", "reviews"}
    /\ cvData' = NullRec
    /\ analysisResult' = NullRec
    /\ Navigate("search", NoJob, searchKey)
    /\ UNCHANGED <<postedFilter, jobs, generatedDocs, loading, loadingType, error,
                   hasSearched, searches, gens, nSearch, nRuns, nGens, errorDetail>>
    /\ lastGen' = NullRec
    /\ UNCHANGED reviewVars

\* handleReset without setPostedFilter('all')
handleResetKeepingFilter ==
    /\ currentStep \in {"search", "analysis", "preview"}
    /\ searchKey < MaxResets
    /\ cvData' = NullRec
    /\ analysisResult' = NullRec
    /\ jobs' = <<>>
    /\ generatedDocs' = NoDocs
    /\ error' = Null
    /\ errorDetail' = Null
    /\ postedFilter' = postedFilter
    /\ hasSearched' = FALSE
    /\ Navigate("search", NoJob, searchKey + 1)
    /\ UNCHANGED <<loading, loadingType, searches, gens, nSearch, nRuns,
                   nGens>>
    /\ lastGen' = NullRec
    /\ UNCHANGED reviewVars

\* App.handleReset: a click on the logo of the header
handleReset ==
    /\ currentStep \in {"search", "analysis", "preview"}
    /\ searchKey < MaxResets
    /\ cvData' = NullRec
    /\ analysisResult' = NullRec
    /\ jobs' = <<>>
    /\ generatedDocs' = NoDocs
    /\ error' = Null
    /\ errorDetail' = Null
    /\ postedFilter' = "all"
    /\ hasSearched' = FALSE
    /\ Navigate("search", NoJob, searchKey + 1)
    /\ UNCHANGED <<loading, loadingType, searches, gens, nSearch, nRuns,
                   nGens>>
    /\ lastGen' = NullRec
    /\ UNCHANGED reviewVars

\* the close button of the alert of App
DismissError ==
    /\ AppAlertShown
    /\ error' = Null
    /\ errorDetail' = Null
    /\ UNCHANGED <<postedFilter, currentStep, jobs, selectedJob, cvData, analysisResult,
                   generatedDocs, loading, loadingType, searchKey,
                   hasSearched, searchVars, cvVars, netVars>>
    /\ lastGen' = NullRec
    /\ UNCHANGED reviewVars

----------------------------------------------------------------------------
(* CV analysis: CVAnalysis.startAnalysis and App.handleAnalysis *)

\* NewRun with a cache: no upload request when a CV was uploaded before
NewRunCached(id, job) ==
    [id |-> id, job |-> job, phase |-> "upload", live |-> TRUE,
     uploads |-> IF cvData = NullRec THEN 1 ELSE 0, analyzes |-> 0]

\* the run a call of handleAnalysis starts: its upload request is in flight;
\* uploads and analyzes count the requests it has sent (history)
NewRun(id, job) ==
    [id |-> id, job |-> job, phase |-> "upload", live |-> TRUE,
     uploads |-> 1, analyzes |-> 0]

\* startAnalysis up to the first fetch of handleAnalysis: the upload request
startAnalysis(f) ==
    /\ nRuns < MaxRuns
    /\ file' = f
    /\ cvError' = Null
    /\ cvErrorDetail' = Null
    /\ dismissedError' = FALSE
    /\ analyzing' = TRUE
    /\ result' = result
    /\ error' = Null
    /\ errorDetail' = Null
    /\ nRuns' = nRuns + 1
    /\ runs' = runs \cup {NewRun(nRuns + 1, selectedJob)}
    /\ UNCHANGED <<postedFilter, currentStep, jobs, selectedJob, cvData, analysisResult,
                   generatedDocs, loading, loadingType, searchKey,
                   hasSearched, searchVars, searches, gens, nSearch, nGens>>

\* handleDrop: a file is dropped on the dropzone of the upload view
handleDrop(f) ==
    /\ UploadView
    /\ IF IsPdfOrDocx(f)
       THEN startAnalysis(f)
       ELSE /\ cvError' = MsgBadFormat
            /\ cvErrorDetail' = Null
            /\ dismissedError' = FALSE
            /\ UNCHANGED <<appVars, searchVars, file, analyzing, result,
                           netVars, errorDetail>>
    /\ lastGen' = NullRec
    /\ UNCHANGED reviewVars

\* handleFileSelect: a file is chosen with 'Browse Files', which the upload
\* view offers while no file is set
handleFileSelect(f) ==
    /\ UploadView
    /\ file = NullRec
    /\ startAnalysis(f)
    /\ lastGen' = NullRec
    /\ UNCHANGED reviewVars

\* 'Remove File' of the upload view
RemoveFile ==
    /\ UploadView
    /\ file # NullRec
    /\ file' = NullRec
    /\ UNCHANGED <<appVars, searchVars, analyzing, result, cvError,
                   dismissedError, cvErrorDetail, netVars, errorDetail>>
    /\ lastGen' = NullRec
    /\ UNCHANGED reviewVars

\* 'Upload Different CV' of the result view
UploadDifferentCV ==
    /\ ResultView
    /\ file' = NullRec
    /\ result' = NullRec
    /\ UNCHANGED <<appVars, searchVars, analyzing, cvError, dismissedError,
                   cvErrorDetail, netVars, errorDetail>>
    /\ lastGen' = NullRec
    /\ UNCHANGED reviewVars

\* the close button of the alert of CVAnalysis
DismissCvError ==
    /\ CvAlertShown
    /\ dismissedError' = TRUE
    /\ IF UploadView
       THEN cvError' = Null /\ cvErrorDetail' = Null
       ELSE UNCHANGED <<cvError, cvErrorDetail>>
    /\ UNCHANGED <<appVars, searchVars, file, analyzing, result, netVars, errorDetail>>
    /\ lastGen' = NullRec
    /\ UNCHANGED reviewVars

\* AnalysisFailed without the catch: the error of the request is dropped
AnalysisFailedSilently(r, message, detail) ==
    IF r.live
    THEN /\ analyzing' = FALSE
         /\ UNCHANGED <<file, result, cvError, cvErrorDetail, dismissedError>>
    ELSE UNCHANGED cvVars

\* the catch and finally of startAnalysis, when its CVAnalysis is mounted
AnalysisFailed(r, message, detail) ==
    IF r.live
    THEN /\ cvError' = message
         /\ cvErrorDetail' = detail
         /\ analyzing' = FALSE
         /\ UNCHANGED <<file, result, dismissedError>>
    ELSE UNCHANGED cvVars

\* the response of the upload endpoint; job is the job the run was started
\* for (history)
UploadData(r) == [cv_id |-> r.id, job |-> r.job]

\* the run after its upload succeeded: the analyze request is in flight
AnalyzeSent(r) == [r EXCEPT !.phase = "analyze", !.analyzes = @ + 1]

\* handleAnalysis: the upload response is ok; the analyze request is sent
UploadOk(r) ==
    /\ r \in runs
    /\ r.phase = "upload"
    /\ cvData' = UploadData(r)
    /\ runs' = (runs \ {r}) \cup {AnalyzeSent(r)}
    /\ UNCHANGED <<postedFilter, currentStep, jobs, selectedJob, analysisResult,
                   generatedDocs, loading, loadingType, error, searchKey,
                   hasSearched, searchVars, cvVars, searches, gens, nSearch,
                   nRuns, nGens, errorDetail>>
    /\ lastGen' = NullRec
    /\ UNCHANGED reviewVars

\* handleAnalysis: the upload response is not ok
UploadFail(r, detail) ==
    /\ r \in runs
    /\ r.phase = "upload"
    /\ runs' = runs \ {r}
    /\ AnalysisFailed(r, DetailOr(detail, MsgUploadFailed), detail)
    /\ UNCHANGED <<appVars, searchVars, searches, gens, nSearch, nRuns,
                   nGens, errorDetail>>
    /\ lastGen' = NullRec
    /\ UNCHANGED reviewVars

\* StoredAnalysis reading a field the response does not have
StoredNothing(analysis, r) == NullRec

\* the value handleAnalysis stores with setAnalysisResult; run is the run
\* that produced it (history)
StoredAnalysis(analysis, r) ==
    [score |-> analysis.score,
     matching_skills |-> analysis.matching_skills,
     missing_skills |-> analysis.missing_skills,
     domain_match |-> analysis.domain_match,
     summary |-> analysis.summary,
     detected_industry |-> "industry",
     run |-> r.id]

\* handleAnalysis: the analyze response is ok
AnalyzeOk(r, analysis) ==
    /\ r \in runs
    /\ r.phase = "analyze"
    /\ runs' = runs \ {r}
    /\ analysisResult' = StoredAnalysis(analysis, r)
    /\ IF r.live
       THEN /\ result' = analysis
            /\ analyzing' = FALSE
            /\ UNCHANGED <<file, cvError, dismissedError, cvErrorDetail>>
       ELSE UNCHANGED cvVars
    /\ UNCHANGED <<postedFilter, currentStep, jobs, selectedJob, cvData, generatedDocs,
                   loading, loadingType, error, searchKey, hasSearched,
                   searchVars, searches, gens, nSearch, nRuns, nGens, errorDetail>>
    /\ lastGen' = NullRec
    /\ UNCHANGED reviewVars

\* handleAnalysis: the analyze response is not ok
AnalyzeFail(r, detail) ==
    /\ r \in runs
    /\ r.phase = "analyze"
    /\ runs' = runs \ {r}
    /\ AnalysisFailed(r, DetailOr(detail, MsgAnalysisFailed), detail)
    /\ UNCHANGED <<appVars, searchVars, searches, gens, nSearch, nRuns,
                   nGens, errorDetail>>
    /\ lastGen' = NullRec
    /\ UNCHANGED reviewVars

----------------------------------------------------------------------------
(* CV generation: App.handleOptimize *)

NoHeader == Null

\* the result view offers 'Optimize CV' unless the analysis is a mismatch
OffersOptimize(res) == res.domain_match # "complete_mismatch"

\* the early return of handleOptimize
CanOptimize(cv, job) == cv # NullRec /\ job # NoJob

\* 'Optimize CV' (onNext): handleOptimize up to its fetch
handleOptimize ==
    /\ ResultView
    /\ OffersOptimize(result)
    /\ nGens < MaxGens
    /\ IF CanOptimize(cvData, selectedJob)
       THEN /\ loading' = TRUE
            /\ loadingType' = "cv"
            /\ error' = Null
            /\ errorDetail' = Null
            /\ Navigate("preview", selectedJob, searchKey)
            /\ nGens' = nGens + 1
            /\ gens' = gens \cup {[id |-> nGens + 1,
                                   cv_id |-> cvData.cv_id,
                                   job |-> selectedJob,
                                   ats_analysis |-> analysisResult]}
            /\ UNCHANGED <<postedFilter, jobs, cvData, analysisResult, generatedDocs,
                           hasSearched, searches, nSearch, nRuns>>
       ELSE UNCHANGED progVars
    /\ lastGen' = NullRec
    /\ UNCHANGED reviewVars

\* skillsAddedHeader ? skillsAddedHeader.split(',').map(s => s.trim()) : []
AddedSkills(header) ==
    IF header # NoHeader /\ header # <<>>
    THEN LET parts == SplitComma(header)
         IN [i \in 1..Len(parts) |-> Trim(parts[i])]
    ELSE <<>>

\* MergeOptimization adding the new score to the old one
MergeAddingScore(prev, newScore, addedSkills) ==
    IF prev = NullRec THEN NullRec
    ELSE LET Added(missing) ==
                 \E i \in 1..Len(addedSkills) :
                     ToLowerCase(addedSkills[i]) = ToLowerCase(missing)
             Kept(missing) == ~Added(missing)
         IN [prev EXCEPT
                !.score = prev.score + newScore,
                !.summary = [text |-> "Optimized", score |-> newScore],
                !.missing_skills = SelectSeq(prev.missing_skills, Kept),
                !.matching_skills = prev.matching_skills \o addedSkills]

\* MergeOptimization leaving the missing skills as they were
MergeKeepingMissing(prev, newScore, addedSkills) ==
    IF prev = NullRec THEN NullRec
    ELSE [prev EXCEPT
             !.score = newScore,
             !.summary = [text |-> "Optimized", score |-> newScore],
             !.matching_skills = prev.matching_skills \o addedSkills]

\* the updater handleOptimize passes to setAnalysisResult
MergeOptimization(prev, newScore, addedSkills) ==
    IF prev = NullRec THEN NullRec
    ELSE LET Added(missing) ==
                 \E i \in 1..Len(addedSkills) :
                     ToLowerCase(addedSkills[i]) = ToLowerCase(missing)
             Kept(missing) == ~Added(missing)
         IN [prev EXCEPT
                !.score = newScore,
                !.summary = [text |-> "Optimized", score |-> newScore],
                !.missing_skills = SelectSeq(prev.missing_skills, Kept),
                !.matching_skills = prev.matching_skills \o addedSkills]

\* the skills the backend can report as added when it answers a request:
\* some of the missing skills of the analysis it was sent
SkillsAdded(g) ==
    IF g.ats_analysis = NullRec THEN {<<>>}
    ELSE SubLists(g.ats_analysis.missing_skills)

\* the response headers of the backend: X-New-Score is absent or the new
\* score, X-Skills-Added the added skills separated by ', '
ScoreHeader(hasScore, n) == IF hasScore THEN NatToStr(n) ELSE NoHeader
SkillsHeader(added) == JoinComma(added)

\* handleOptimize after its fetch: the response is ok.  lastGen records the
\* analysis before the update and what the backend put into the headers
GenOk(g, hasScore, n, added, isPdf) ==
    /\ g \in gens
    /\ gens' = gens \ {g}
    /\ analysisResult' =
           LET newScoreHeader == ScoreHeader(hasScore, n)
               skillsAddedHeader == SkillsHeader(added)
           IN IF newScoreHeader # NoHeader /\ newScoreHeader # <<>>
              THEN MergeOptimization(analysisResult,
                                     ParseInt(newScoreHeader),
                                     AddedSkills(skillsAddedHeader))
              ELSE analysisResult
    /\ generatedDocs' =
           IF isPdf
           THEN [generatedDocs EXCEPT !.cv = [blob |-> g.id],
                                      !.isPdf = [bool |-> TRUE],
                                      !.textContent = NullRec]
           ELSE [generatedDocs EXCEPT !.cv = NullRec,
                                      !.isPdf = [bool |-> FALSE],
                                      !.textContent = [text |-> g.id]]
    /\ loading' = FALSE
    /\ lastGen' = [prev |-> analysisResult, hasScore |-> hasScore,
                   score |-> n, skills |-> added]
    /\ UNCHANGED <<postedFilter, currentStep, jobs, selectedJob, cvData, loadingType,
                   error, searchKey, hasSearched, searchVars, cvVars,
                   searches, runs, nSearch, nRuns, nGens, errorDetail,
                   reviewVars>>

\* handleOptimize after its fetch: the response is not ok
GenFail(g, detail) ==
    /\ g \in gens
    /\ gens' = gens \ {g}
    /\ error' = DetailOr(detail, MsgGenerateFailed)
    /\ errorDetail' = detail
    /\ Navigate("analysis", selectedJob, searchKey)
    /\ loading' = FALSE
    /\ UNCHANGED <<postedFilter, jobs, cvData, analysisResult, generatedDocs, loadingType,
                   hasSearched, searches, nSearch, nRuns, nGens>>
    /\ lastGen' = NullRec
    /\ UNCHANGED reviewVars

----------------------------------------------------------------------------
(* Specification *)

Next ==
    \/ \E v \in SearchInputs : ChangeInput(v)
    \/ TimerFire
    \/ \E s \in searches : SearchOk(s)
    \/ \E s \in searches, d \in Details : SearchFail(s, d)
    \/ \E v \in PostedFilters : SelectPostedFilter(v)
    \/ \E j \in Jobs : handleSelectJob(j)
    \/ GoAbout
    \/ GoReviews
    \/ handleBackToSearch
    \/ handleReset
    \/ DismissError
    \/ \E f \in Files : handleDrop(f)
    \/ \E f \in Files : handleFileSelect(f)
    \/ RemoveFile
    \/ UploadDifferentCV
    \/ DismissCvError
    \/ \E r \in runs : UploadOk(r)
    \/ \E r \in runs, d \in Details : UploadFail(r, d)
    \/ \E r \in runs, a \in Analyses : AnalyzeOk(r, a)
    \/ \E r \in runs, d \in Details : AnalyzeFail(r, d)
    \/ handleOptimize
    \/ \E g \in gens, d \in Details : GenFail(g, d)
    \/ \E g \in gens, hasScore, isPdf \in BOOLEAN :
           \E n \in (IF hasScore THEN NewScores ELSE {0}) :
               \E added \in SkillsAdded(g) :
                   GenOk(g, hasScore, n, added, isPdf)

Spec == Init /\ [][Next]_vars

----------------------------------------------------------------------------
(* The Reviews page: the Reviews component by itself, while App stays on   *)
(* the reviews step.  Spec leaves the state of Reviews at its initial      *)
(* values.  The deletion of a review (confirmDelete) is left out.          *)

\* what the user can type into the name and the comment field
Texts == {<<>>, <<" ">>, <<"A","n","n">>}

\* the reviews the backend answers GET /reviews with
ServerReviews == <<[id |-> 0, name |-> <<"B","o","b">>, rating |-> 4,
                    comment |-> <<"o","k">>]>>

\* the review the backend answers POST /reviews with
NewReview(p) ==
    [id |-> p.id, name |-> p.name, rating |-> p.rating,
     comment |-> p.comment]

\* App after the mount and a click on 'Reviews': the mount search is in
\* flight, JobSearch is unmounted, Reviews is mounted and fetches
ReviewInit ==
    /\ currentStep = "reviews"
    /\ jobs = <<>>
    /\ selectedJob = NoJob
    /\ cvData = NullRec
    /\ analysisResult = NullRec
    /\ generatedDocs = NoDocs
    /\ loading = TRUE
    /\ loadingType = "cv"
    /\ error = Null
    /\ searchKey = 0
    /\ postedFilter = "all"
    /\ hasSearched = TRUE
    /\ inputs = DefaultInputs
    /\ timer = NoTimer
    /\ file = NullRec
    /\ analyzing = FALSE
    /\ result = NullRec
    /\ cvError = Null
    /\ dismissedError = FALSE
    /\ searches = {[id |-> 1, args |-> DefaultInputs]}
    /\ runs = {}
    /\ gens = {}
    /\ nSearch = 1
    /\ nRuns = 0
    /\ nGens = 0
    /\ errorDetail = Null
    /\ cvErrorDetail = Null
    /\ lastGen = NullRec
    /\ ReviewsFresh

\* fetchReviews after its fetch: the response is ok or not
FetchDone(ok) ==
    /\ reviewsLoading
    /\ reviews' = IF ok THEN ServerReviews ELSE reviews
    /\ reviewsLoading' = FALSE
    /\ UNCHANGED <<submitting, reviewError, name, rating, comment, showForm,
                   posts, nPosts, progVars, lastGen>>

\* the button 'Write a Review' / 'Close Form'
ToggleForm ==
    /\ showForm' = ~showForm
    /\ UNCHANGED <<reviews, reviewsLoading, submitting, reviewError, name,
                   rating, comment, posts, nPosts, progVars, lastGen>>

\* onChange of the name field
setName(v) ==
    /\ showForm
    /\ v # name
    /\ name' = v
    /\ UNCHANGED <<reviews, reviewsLoading, submitting, reviewError, rating,
                   comment, showForm, posts, nPosts, progVars, lastGen>>

\* onChange of the comment field
setComment(v) ==
    /\ showForm
    /\ v # comment
    /\ comment' = v
    /\ UNCHANGED <<reviews, reviewsLoading, submitting, reviewError, name,
                   rating, showForm, posts, nPosts, progVars, lastGen>>

\* setRating taking the index of the star instead of the star
setRatingByIndex(star) ==
    /\ showForm
    /\ star \in 1..MaxStars
    /\ rating' = star - 1
    /\ UNCHANGED <<reviews, reviewsLoading, submitting, reviewError, name,
                   comment, showForm, posts, nPosts, progVars, lastGen>>

\* a click on a star of the form
setRating(star) ==
    /\ showForm
    /\ star \in 1..MaxStars
    /\ rating' = star
    /\ UNCHANGED <<reviews, reviewsLoading, submitting, reviewError, name,
                   comment, showForm, posts, nPosts, progVars, lastGen>>

\* handleSubmit up to its fetch; the submit button is disabled while
\* submitting
handleSubmit ==
    /\ showForm
    /\ ~submitting
    /\ nPosts < MaxPosts
    /\ IF Trim(name) = <<>> \/ Trim(comment) = <<>>
       THEN UNCHANGED <<submitting, reviewError, posts, nPosts>>
       ELSE /\ submitting' = TRUE
            /\ reviewError' = Null
            /\ nPosts' = nPosts + 1
            /\ posts' = posts \cup {[id |-> nPosts + 1, name |-> name,
                                     rating |-> rating, comment |-> comment]}
    /\ UNCHANGED <<reviews, reviewsLoading, name, rating, comment, showForm,
                   progVars, lastGen>>

\* handleSubmit after its fetch: the response is ok
SubmitOk(p) ==
    /\ p \in posts
    /\ posts' = posts \ {p}
    /\ reviews' = <<NewReview(p)>> \o reviews
    /\ name' = <<>>
    /\ comment' = <<>>
    /\ rating' = InitialRating
    /\ showForm' = FALSE
    /\ submitting' = FALSE
    /\ UNCHANGED <<reviewsLoading, reviewError, nPosts, progVars, lastGen>>

\* handleSubmit after its fetch: the response is not ok
SubmitFail(p, detail) ==
    /\ p \in posts
    /\ posts' = posts \ {p}
    /\ reviewError' = DetailOr(detail, MsgSubmitFailed)
    /\ submitting' = FALSE
    /\ UNCHANGED <<reviews, reviewsLoading, name, rating, comment, showForm,
                   nPosts, progVars, lastGen>>

ReviewNext ==
    \/ \E ok \in BOOLEAN : FetchDone(ok)
    \/ ToggleForm
    \/ \E v \in Texts : setName(v)
    \/ \E v \in Texts : setComment(v)
    \/ \E star \in 1..MaxStars : setRating(star)
    \/ handleSubmit
    \/ \E p \in posts : SubmitOk(p)
    \/ \E p \in posts, d \in Details : SubmitFail(p, d)

ReviewSpec == ReviewInit /\ [][ReviewNext]_vars

----------------------------------------------------------------------------
(* Properties *)

\* a step that sends a CV generation request
SendsGeneration == nGens' = nGens + 1

\* the number of requests in flight: one per search, one per analysis run
\* (its upload or its analyze request) and one per generation
InFlight == Cardinality(searches) + Cardinality(runs) + Cardinality(gens)

\* C1: a CV generation request is sent only in a state in which selectedJob
\* and cvData are non-null and a fit analysis result is present
C1_GenerationAfterAnalysis ==
    [][SendsGeneration =>
          /\ selectedJob # NoJob
          /\ cvData # NullRec
          /\ analysisResult # NullRec]_vars

\* a generation request is in flight and carries a job, a cv_id and an
\* analysis
C1_Witness ==
    \E g \in gens : g.job \in Jobs /\ g.cv_id \in 1..MaxRuns
                    /\ g.ats_analysis # NullRec

\* C2: at any time at most one request of the app is in flight
C2_OneRequestAtATime == InFlight <= 1

\* C3: a generation request is sent only when cvData and analysisResult come
\* from the same analysis run and that run was started for the selected job
C3_SameRunAndJob ==
    [][SendsGeneration /\ analysisResult # NullRec =>
          /\ analysisResult.run = cvData.cv_id
          /\ cvData.job = selectedJob]_vars

AppAlertText == Render(error)
CvAlertText == Render(DisplayError)

\* the server detail behind displayError of CVAnalysis
DisplayDetail == IF cvError # Null THEN cvErrorDetail ELSE errorDetail

\* the failed request carried a detail text
HasDetail(detail) == detail # Null /\ detail # <<>>

\* C5 as claimed: an alert that shows the failure of a request that carried
\* a detail shows exactly the detail text
C5_DetailVerbatim ==
    /\ AppAlertShown /\ HasDetail(errorDetail) => AppAlertText = errorDetail
    /\ CvAlertShown /\ HasDetail(DisplayDetail) =>
           CvAlertText = DisplayDetail

\* what an alert shows for a detail: the fixed text when the detail
\* contains 'buymeacoffee', the detail itself otherwise
ShownFor(detail) ==
    IF Includes(detail, BuyMeACoffee) THEN MsgServerBusy ELSE detail

\* C5 amended: an alert that shows the failure of a request that carried a
\* detail shows exactly the detail text, unless the detail contains
\* 'buymeacoffee': then it shows the fixed 'Server is busy' text
C5_DetailVerbatimUnlessBusy ==
    /\ AppAlertShown /\ HasDetail(errorDetail) =>
           AppAlertText = ShownFor(errorDetail)
    /\ CvAlertShown /\ HasDetail(DisplayDetail) =>
           CvAlertText = ShownFor(DisplayDetail)

\* CVAnalysis shows the detail of a failed upload or analyze request, and
\* it is a plain one
C5_Witness ==
    /\ CvAlertShown
    /\ cvErrorDetail = DetailRate
    /\ CvAlertText = DetailRate

\* C6: an upload request is sent only for a file that is a PDF or a DOCX
C6_UploadOnlyPdfOrDocx ==
    [][nRuns' = nRuns + 1 => IsPdfOrDocx(file')]_vars

\* the runs of runs' that are not in runs
NewRuns == {r2 \in runs' : \A r \in runs : r.id # r2.id}

\* a step in which CVAnalysis starts an analysis
StartsAnalysis == analyzing' /\ ~analyzing

\* a step in which a request of a run fails: the run ends without a result
RunFailed ==
    \E r \in runs :
        /\ \A r2 \in runs' : r2.id # r.id
        /\ analysisResult' = analysisResult

\* every run in flight has sent one upload request, and one analyze request
\* exactly when its upload succeeded
C7_RunRequests ==
    \A r \in runs :
        /\ r.uploads = 1
        /\ r.analyzes = (IF r.phase = "analyze" THEN 1 ELSE 0)

\* C7: each analysis the user starts sends exactly one upload request and
\* at most one analyze request; a start always puts a new upload request in
\* flight, whatever was analysed before; a failure sends no request
C7_OneUploadOneAnalyze ==
    /\ []C7_RunRequests
    /\ [][/\ StartsAnalysis =>
                /\ Cardinality(NewRuns) = 1
                /\ \A r2 \in NewRuns :
                       r2.phase = "upload" /\ r2.job = selectedJob
          /\ RunFailed =>
                /\ NewRuns = {}
                /\ \A r \in runs, r2 \in runs' :
                       r.id = r2.id =>
                           r2.uploads = r.uploads /\ r2.analyzes = r.analyzes
         ]_vars

\* a second analysis was started for the job of the result the app holds,
\* and its upload request is in flight
C7_Witness ==
    \E r \in runs :
        /\ r.id = 2
        /\ r.live
        /\ r.phase = "upload"
        /\ cvData # NullRec
        /\ cvData.cv_id = 1
        /\ cvData.job = r.job
        /\ analysisResult # NullRec
        /\ analysisResult.run = 1

\* skill is one of the listed skills, compared case-insensitively
ListedIn(skills, skill) ==
    \E i \in 1..Len(skills) : ToLowerCase(skills[i]) = ToLowerCase(skill)

\* the analysis now is the analysis prev after an optimization that
\* reported the score and the skills
Optimized(prev, now, score, skills) ==
    /\ now.score = score
    /\ now.matching_skills = prev.matching_skills \o skills
    /\ Range(now.missing_skills) \subseteq Range(prev.missing_skills)
    /\ \A m \in Range(prev.missing_skills) :
           ListedIn(skills, m) <=> m \notin Range(now.missing_skills)

\* C8 as claimed: after an ok generation response with an X-New-Score
\* header the score is the one of the header, the skills of X-Skills-Added
\* are removed from missing_skills and appended to matching_skills, and no
\* other missing skill is removed
C8_MergeApplied ==
    lastGen # NullRec /\ lastGen.hasScore =>
        /\ analysisResult # NullRec
        /\ Optimized(lastGen.prev, analysisResult, lastGen.score,
                     lastGen.skills)

\* C8 amended: the same when analysisResult is non-null at the time the
\* response is handled; when it is null it stays null
C8_MergeAppliedUnlessNull ==
    lastGen # NullRec /\ lastGen.hasScore =>
        IF lastGen.prev = NullRec
        THEN analysisResult = NullRec
        ELSE /\ analysisResult # NullRec
             /\ Optimized(lastGen.prev, analysisResult, lastGen.score,
                          lastGen.skills)

\* an optimization removed 'python' for the added skill 'Python' and kept
\* another missing skill
C8_Witness ==
    /\ lastGen # NullRec
    /\ lastGen.hasScore
    /\ lastGen.prev # NullRec
    /\ Python \in Range(lastGen.skills)
    /\ PythonLc \in Range(lastGen.prev.missing_skills)
    /\ analysisResult.missing_skills = <<Go>>

\* C9: after an optimization merged the added skills, every matching skill
\* was a matching or a missing skill before the optimization
C9_NoNewSkills ==
    lastGen # NullRec /\ lastGen.hasScore /\ lastGen.prev # NullRec =>
        Range(analysisResult.matching_skills) \subseteq
            (Range(lastGen.prev.matching_skills)
                 \cup Range(lastGen.prev.missing_skills))

\* C10: no generation request is sent with an analysis whose domain_match is
\* 'complete_mismatch'
C10_NoMismatchGeneration ==
    [][SendsGeneration /\ analysisResult # NullRec =>
          analysisResult.domain_match # "complete_mismatch"]_vars

\* a step in which a failed generation response is handled
GenerationFails == \E g \in gens, d \in Details : GenFail(g, d)

\* C11: when a generation request fails, the app ends in the analysis step
\* for the still-selected job, with the failure message displayed by
\* CVAnalysis, loading false and generatedDocs unchanged
C11_GenerationFailureState ==
    [][GenerationFails =>
          /\ currentStep' = "analysis"
          /\ selectedJob' = selectedJob
          /\ selectedJob' # NoJob
          /\ error' # Null
          /\ CvAlertShown'
          /\ CvAlertText' = Render(error')
          /\ ~loading'
          /\ generatedDocs' = generatedDocs]_vars

\* a step in which a failed search response is handled
SearchFails == \E s \in searches, d \in Details : SearchFail(s, d)

\* C12: when a search request fails, the job list is empty, error is the
\* failure message, loading is false, and currentStep, selectedJob, cvData
\* and analysisResult are unchanged
C12_SearchFailureState ==
    [][SearchFails =>
          /\ jobs' = <<>>
          /\ error' # Null
          /\ \/ error' = errorDetail'
             \/ errorDetail' = <<>> /\ error' = MsgSearchFailed
          /\ ~loading'
          /\ UNCHANGED <<currentStep, selectedJob, cvData,
                         analysisResult>>]_vars

\* C13: the rating of the review being composed is an integer in 1..5 in
\* every state of the review form, and so is the rating of every review
\* that was submitted
C13_RatingInRange ==
    /\ rating \in 1..5
    /\ \A p \in posts : p.rating \in 1..5
    /\ \A i \in 1..Len(reviews) : reviews[i].rating \in 1..5

\* a review with one star was submitted and accepted, the form is reset to
\* five stars, and the user has clicked the second star for the next review
C13_Witness ==
    /\ \E i \in 1..Len(reviews) : reviews[i].id = 1 /\ reviews[i].rating = 1
    /\ showForm
    /\ rating = 2

\* a search or a generation request of the app is in flight
Pending == searches # {} \/ gens # {}

\* C14: loading is true exactly while a search or a generation request is
\* in flight
C14_LoadingWhilePending == loading <=> Pending

\* a step in which the ok response of an earlier search is handled after
\* the most recently issued search has completed
StaleSearchOk ==
    \E s \in searches :
        /\ SearchOk(s)
        /\ s.id < nSearch
        /\ \A s2 \in searches : s2.id # nSearch

\* C15: the response of an earlier search that arrives after the most
\* recently issued search has completed does not replace the job list, so
\* that the list is the one of the most recent search once no search is in
\* flight
C15_LatestSearchWins == [][StaleSearchOk => jobs' = jobs]_vars

\* the preview step shows the 'Optimization Complete!' banner and the
\* DocumentPreview instead of the progress view
PreviewShown == currentStep = "preview" /\ ~loading

\* generatedDocs holds the document of the generation request id
HasDoc(id) ==
    \/ generatedDocs.cv = [blob |-> id]
    \/ generatedDocs.textContent = [text |-> id]

\* C16: the banner and the DocumentPreview are shown only when no
\* generation request is pending, and the document shown is the one the
\* most recent generation request returned
C16_PreviewAfterGeneration ==
    PreviewShown => gens = {} /\ HasDoc(nGens)

\* C17: in every reachable state the analysis step has a selected job
C17_AnalysisHasJob == currentStep = "analysis" => selectedJob # NoJob

\* a pending timer belongs to a mounted JobSearch and will call onSearch
\* with the current values of query, location, country and filters
TimerIsCurrent ==
    timer # NoTimer => SearchMounted(currentStep) /\ timer.args = inputs

\* a step in which JobSearch calls onSearch
CallsOnSearch == nSearch' = nSearch + 1

\* C18: JobSearch calls onSearch only from a pending timer, which a change
\* of the inputs or an unmount replaces or cancels, so that the call
\* carries the latest inputs and uses up the timer
C18_DebouncedSearch ==
    /\ []TimerIsCurrent
    /\ [][CallsOnSearch =>
              /\ timer # NoTimer
              /\ timer' = NoTimer
              /\ inputs' = inputs
              /\ \E s \in searches' : s.id = nSearch' /\ s.args = inputs
         ]_vars

\* the inputs were changed and the timer has issued a search for them
C18_Witness ==
    /\ inputs # DefaultInputs
    /\ timer = NoTimer
    /\ \E s \in searches : s.id = nSearch /\ s.args = inputs

\* a step in which handleAnalysis handles an ok upload response of run r
UploadSucceeds(r) == r \in runs /\ UploadOk(r)

\* a step in which handleAnalysis handles an ok analyze response of run r
AnalyzeSucceeds(r) == r \in runs /\ \E a \in Analyses : AnalyzeOk(r, a)

\* a step in which the upload or the analyze request of run r fails with
\* the detail d
RequestFails(r, d) == r \in runs /\ (UploadFail(r, d) \/ AnalyzeFail(r, d))

\* the message of a failed request of a run in the given phase
FailureMessage(phase, detail) ==
    IF detail # <<>> THEN detail
    ELSE IF phase = "upload" THEN MsgUploadFailed ELSE MsgAnalysisFailed

\* the analyze request of run r is in flight in the next state
AnalyzeInFlight(r) ==
    \E r2 \in runs' : r2.id = r.id /\ r2.phase = "analyze"

C20_NullUntilNewUpload ==
    currentStep = "search" => cvData = NullRec /\ analysisResult = NullRec

\* a step of handleReset, taken in any state in which the logo is shown
Resets == searchKey' = searchKey + 1

\* C21: after handleReset, invoked in any state, the data state of App is
\* the initial one: currentStep 'search', jobs empty, selectedJob, cvData
\* and analysisResult null, generatedDocs {cv: null, coverLetter: null},
\* error null, postedFilter 'all', hasSearched false
C21_ResetIsInitial ==
    [][Resets =>
          /\ currentStep' = "search"
          /\ jobs' = <<>>
          /\ selectedJob' = NoJob
          /\ cvData' = NullRec
          /\ analysisResult' = NullRec
          /\ generatedDocs' = [cv |-> NullRec, coverLetter |-> NullRec,
                               isPdf |-> Undefined, textContent |-> Undefined]
          /\ error' = Null
          /\ postedFilter' = "all"
          /\ hasSearched' = FALSE]_vars

\* handleReset was invoked after a generation request had completed and
\* has just mounted JobSearch anew
C21_Witness ==
    /\ searchKey = 1
    /\ currentStep = "search"
    /\ jobs = <<>>
    /\ postedFilter = "all"
    /\ generatedDocs = NoDocs
    /\ ~hasSearched
    /\ nGens = 1
    /\ gens = {}
    /\ timer # NoTimer
    /\ timer.origin = "reset"

\* a step that changes postedFilter through the dropdown or handleReset
FilterChosenOrReset ==
    \/ \E v \in PostedFilters : SelectPostedFilter(v)
    \/ handleReset

\* C22: handleBackToSearch sets selectedJob, cvData and analysisResult to
\* null and currentStep to 'search' and leaves the other state of App
\* (jobs, postedFilter, generatedDocs, error, loading, ...) unchanged;
\* postedFilter changes only through the dropdown or handleReset
C22_BackToSearchFrame ==
    [][/\ handleBackToSearch =>
              /\ selectedJob' = NoJob
              /\ cvData' = NullRec
              /\ analysisResult' = NullRec
              /\ currentStep' = "search"
              /\ UNCHANGED <<jobs, postedFilter, generatedDocs, error,
                             loading, loadingType, searchKey, hasSearched>>
       /\ postedFilter' # postedFilter => FilterChosenOrReset
      ]_vars

\* the app has just come back from the analysis step of a job with an
\* uploaded CV: the job list and the chosen filter are still there
C22_Witness ==
    /\ currentStep = "search"
    /\ timer # NoTimer
    /\ timer.origin = "analysis"
    /\ nRuns > 0
    /\ selectedJob = NoJob
    /\ cvData = NullRec
    /\ jobs # <<>>
    /\ postedFilter = "week"

\* C23: a timer set by the return from the analysis step, that is with no
\* change of a search input since, issues no search
C23_NoSearchOnReturn ==
    [][timer # NoTimer /\ timer.origin = "analysis" => ~CallsOnSearch]_vars

====
